---- MODULE Spec2Model ----
(***************************************************************************)
(* Model of xknx/io/udp_client.py: class UDPClient.                         *)
(*                                                                         *)
(* One client instance.  The client's fields are `multicast`, `transport`  *)
(* and `callbacks`; the asyncio datagram endpoints that connect() opens    *)
(* are kept in `endpoints` (they outlive the reference the client holds).  *)
(* An endpoint is `pending` while the connect that opened it is suspended  *)
(* in its await, `open` until its transport is closed, and `lost` once the *)
(* event loop has released the socket of the closed transport.             *)
(* `last` is the observable outcome of the most recent operation: the      *)
(* exception raised to the caller, the handlers invoked, the log line      *)
(* "UNHANDLED", the datagrams written.  `released` is the set of Callback  *)
(* objects for which unregister_callback has returned.  `hung` is set when *)
(* a dispatch loop does not terminate: the event loop never runs again.    *)
(* `call` holds the arguments of a call of the constructor or of            *)
(* create_multicast_sock that is examined on its own.                      *)
(***************************************************************************)
EXTENDS Integers, Sequences, FiniteSets, TLC

VARIABLES local_addr, remote_addr, multicast, transport, endpoints, callbacks,
          nextId, released, hung, last, call

vars == <<local_addr, remote_addr, multicast, transport, endpoints, callbacks,
          nextId, released, hung, last, call>>

(***************************************************************************)
(* Bounds of the model.                                                    *)
(***************************************************************************)
\* number of register_callback calls made by the users of the client
MaxHandles == 2
\* number of register_callback calls made by handlers during dispatch
MaxPassHandles == 1
\* number of endpoints opened over the life of the client
MaxEndpoints == 2
\* number of endpoints and Callback objects created, taken together
MaxCreated == 4

\* the endpoints and Callback objects created so far
Created(eps, nid) == Len(eps) + (nid - 1)

(***************************************************************************)
(* Inputs.                                                                 *)
(***************************************************************************)
\* service type identifiers of the frames used (0x0201, 0x0203)
ServiceTypes == {513, 515}

\* service_types arguments of register_callback: None / [] and [0x0201]
Filters == {{}, {513}}

\* behaviours of the handler functions given to register_callback:
\*   h_ok          returns
\*   h_raise       raises an exception
\*   h_unreg_self  calls udp_client.unregister_callback on its own handle
\*   h_reg_self    calls udp_client.register_callback(itself)
Handlers == {"h_ok", "h_raise", "h_unreg_self", "h_reg_self"}

\* the register_callback calls made by the users of the client: the handler
\* that returns with either filter, the handlers that raise or change the
\* registry with the default filter
Registrations ==
    ({"h_ok"} \X Filters) \cup ({"h_raise", "h_unreg_self", "h_reg_self"} \X {{}})

Platforms == {"win32", "darwin", "linux"}

None == 0

(***************************************************************************)
(* Values given as local_addr / remote_addr: the Python type of the value  *)
(* and the types of its elements.                                          *)
(***************************************************************************)
Value(type, items) == [type |-> type, items |-> items]

\* a (host, port) pair
HostPort == Value("tuple", <<"str", "int">>)

\* the value of a field that was never assigned
Unset == Value("NoneType", <<>>)

\* isinstance(value, tuple)
IsTuple(value) == value.type = "tuple"

(***************************************************************************)
(* The codec (xknx.knxip.KNXIPFrame): to_knx / from_knx.                   *)
(* A frame is known to the client only by header.service_type_ident.       *)
(* The encoding is the KNX/IP header: header length 0x06, protocol version *)
(* 0x10, service type (2 bytes, big endian).                               *)
(***************************************************************************)
Frame(st) == [service_type_ident |-> st]

Frames == {Frame(st) : st \in ServiceTypes}

to_knx(knxipframe) ==
    <<6, 16, knxipframe.service_type_ident \div 256,
             knxipframe.service_type_ident % 256>>

\* from_knx raises CouldNotParseKNXIP on anything that is not a frame
CouldNotParse(raw) ==
    \/ Len(raw) # 4
    \/ raw[1] # 6
    \/ raw[2] # 16
    \/ (raw[3] * 256 + raw[4]) \notin ServiceTypes

from_knx(raw) == Frame(raw[3] * 256 + raw[4])

\* datagrams delivered to the client: empty, well-formed, malformed
RawInputs ==
    {<<>>} \cup {to_knx(f) : f \in Frames}
           \cup {<<6, 16, 2>>}

(***************************************************************************)
(* Callback objects.  Every register_callback call creates a new object;   *)
(* `id` is the identity of the object (list.remove compares by identity,   *)
(* the class defines no __eq__).                                           *)
(***************************************************************************)
Callback(id, callback, service_types) ==
    [id |-> id, callback |-> callback, service_types |-> service_types]

has_service(callb, service_type) ==
    Cardinality(callb.service_types) = 0 \/ service_type \in callb.service_types

Ids(cbs) == {cbs[i].id : i \in DOMAIN cbs}

\* self.callbacks.append(callb)
register(cbs, id, callback, service_types) ==
    Append(cbs, Callback(id, callback, service_types))

\* list.remove with an equality that compares the fields of the objects:
\* the first element with the same handler and the same filter
FirstIndex_by_value(cbs, id) ==
    LET target == CHOOSE i \in DOMAIN cbs : cbs[i].id = id
    IN  CHOOSE i \in DOMAIN cbs :
            /\ cbs[i].callback = cbs[target].callback
            /\ cbs[i].service_types = cbs[target].service_types
            /\ \A j \in 1..(i - 1) :
                   \/ cbs[j].callback # cbs[target].callback
                   \/ cbs[j].service_types # cbs[target].service_types

\* index of the first element of the list that is the object `id`
FirstIndex(cbs, id) ==
    CHOOSE i \in DOMAIN cbs :
        /\ cbs[i].id = id
        /\ \A j \in 1..(i - 1) : cbs[j].id # id

RemoveAt(cbs, i) ==
    [j \in 1..(Len(cbs) - 1) |-> IF j < i THEN cbs[j] ELSE cbs[j + 1]]

\* self.callbacks.remove(callb), for callb in the list
unregister(cbs, id) == RemoveAt(cbs, FirstIndex(cbs, id))

(***************************************************************************)
(* handle_knxipframe: the dispatch pass.                                   *)
(***************************************************************************)
\* the effect of callback.callback(knxipframe, self) on the client
InvokeHandler(callb, cbs, nid) ==
    CASE callb.callback = "h_ok" ->
            [callbacks |-> cbs, nextId |-> nid, exc |-> "none"]
      [] callb.callback = "h_raise" ->
            [callbacks |-> cbs, nextId |-> nid, exc |-> "HandlerError"]
      [] callb.callback = "h_unreg_self" ->
            IF callb.id \in Ids(cbs)
            THEN [callbacks |-> unregister(cbs, callb.id), nextId |-> nid,
                  exc |-> "none"]
            ELSE [callbacks |-> cbs, nextId |-> nid, exc |-> "ValueError"]
      [] callb.callback = "h_reg_self" ->
            [callbacks |-> register(cbs, nid, "h_reg_self", {}),
             nextId |-> nid + 1, exc |-> "none"]

\* a log line written after every pass
LogUnhandled_always(handled) == TRUE

\* if not handled: logger.debug("UNHANDLED: ...")
LogUnhandled(handled) == ~handled

\* The for loop over self.callbacks.  The list iterator keeps an index into
\* the live list: i is the (1-based) index of the next element.
\* A registration created during this pass (id >= startId) was created by
\* h_reg_self with an empty filter, and so is every element behind it: once
\* the iterator reaches one, every call appends another and the loop never
\* ends (hung).
RECURSIVE DispatchLoop(_, _, _, _, _, _, _)
DispatchLoop(cbs, nid, i, service_type, handled, invoked, startId) ==
    IF i > Len(cbs)
    THEN [callbacks |-> cbs, nextId |-> nid, invoked |-> invoked,
          exc |-> "none", hung |-> FALSE, unhandled |-> LogUnhandled(handled)]
    ELSE IF ~has_service(cbs[i], service_type)
    THEN DispatchLoop(cbs, nid, i + 1, service_type, handled, invoked, startId)
    ELSE IF cbs[i].id >= startId
    THEN [callbacks |-> cbs, nextId |-> nid, invoked |-> invoked,
          exc |-> "none", hung |-> TRUE, unhandled |-> FALSE]
    ELSE LET r == InvokeHandler(cbs[i], cbs, nid)
         IN  IF r.exc # "none"
             THEN [callbacks |-> r.callbacks, nextId |-> r.nextId,
                   invoked |-> Append(invoked, cbs[i].id),
                   exc |-> r.exc, hung |-> FALSE, unhandled |-> FALSE]
             ELSE DispatchLoop(r.callbacks, r.nextId, i + 1, service_type,
                               TRUE, Append(invoked, cbs[i].id), startId)

handle_knxipframe(cbs, nid, knxipframe) ==
    DispatchLoop(cbs, nid, 1, knxipframe.service_type_ident, FALSE, <<>>, nid)

\* a receive path without the except clause
Caught_nothing(exc) == FALSE

\* except CouldNotParseKNXIP: logger.exception(...)
Caught(exc) == exc = "CouldNotParseKNXIP"

\* data_received_callback: empty data is ignored; from_knx raises
\* CouldNotParseKNXIP or the frame is dispatched; the except clause covers both
data_received_callback(cbs, nid, raw) ==
    IF Len(raw) = 0
    THEN [callbacks |-> cbs, nextId |-> nid, invoked |-> <<>>,
          exc |-> "none", hung |-> FALSE, unhandled |-> FALSE,
          decoded |-> FALSE]
    ELSE LET r == IF CouldNotParse(raw)
                  THEN [callbacks |-> cbs, nextId |-> nid, invoked |-> <<>>,
                        exc |-> "CouldNotParseKNXIP", hung |-> FALSE,
                        unhandled |-> FALSE]
                  ELSE handle_knxipframe(cbs, nid, from_knx(raw))
         IN  [callbacks |-> r.callbacks, nextId |-> r.nextId,
              invoked |-> r.invoked,
              exc |-> IF Caught(r.exc) THEN "none" ELSE r.exc,
              hung |-> r.hung, unhandled |-> r.unhandled,
              decoded |-> ~CouldNotParse(raw)]

(***************************************************************************)
(* create_multicast_sock: the socket calls made, in order.                 *)
(***************************************************************************)
\* a bind branch that enables SO_REUSEPORT on every platform but win32
BindOps_reuseport(platform) ==
    CASE platform = "win32" -> <<"bind_any">>
      [] platform = "darwin" -> <<"SO_REUSEPORT", "bind_any">>
      [] OTHER -> <<"SO_REUSEPORT", "bind_group">>

BindOps(platform) ==
    CASE platform = "win32" -> <<"bind_any">>
      [] platform = "darwin" -> <<"SO_REUSEPORT", "bind_any">>
      [] OTHER -> <<"bind_group">>

SockOps(platform) ==
    <<"socket", "SO_REUSEADDR", "setblocking", "IP_MULTICAST_IF",
      "IP_ADD_MEMBERSHIP", "IP_MULTICAST_TTL">>
        \o BindOps(platform) \o <<"IP_MULTICAST_LOOP">>

\* failAt = 0: every call succeeds; failAt = k: the k-th call raises OSError
create_multicast_sock(platform, failAt) ==
    LET ops == SockOps(platform)
    IN  IF failAt \in 1..Len(ops)
        THEN [ok |-> FALSE, failed |-> ops[failAt],
              done |-> SubSeq(ops, 1, failAt - 1)]
        ELSE [ok |-> TRUE, failed |-> "none", done |-> ops]

\* where a connect can fail: 0 nowhere, k <= Len(SockOps) in the k-th socket
\* call of create_multicast_sock, Len(SockOps) + 1 (multicast) or 1 (unicast)
\* in loop.create_datagram_endpoint
FailPoints(mc, platform) ==
    IF mc THEN 0..(Len(SockOps(platform)) + 1) ELSE 0..1

(***************************************************************************)
(* The state of the client seen from outside.                              *)
(***************************************************************************)
TransportState ==
    IF transport = None THEN "Unconnected"
    ELSE IF endpoints[transport].open THEN "Connected"
    ELSE "Closed"

Outcome(op) ==
    [op |-> op, err |-> "none", fail |-> "none", raw |-> <<>>, frame |-> 0,
     invoked |-> <<>>, unhandled |-> FALSE, decoded |-> FALSE,
     wrote |-> <<>>, factory_calls |-> 0, endpoint_opens |-> 0,
     logged |-> FALSE, ret |-> "none", handle |-> 0]

\* no call is examined on its own
NoCall == [fn |-> "none"]

\* UDPClient(xknx, (host, port), (host, port), multicast)
Init ==
    /\ local_addr = HostPort
    /\ remote_addr = HostPort
    /\ call = NoCall
    /\ multicast \in BOOLEAN
    /\ transport = None
    /\ endpoints = <<>>
    /\ callbacks = <<>>
    /\ nextId = 1
    /\ released = {}
    /\ hung = FALSE
    /\ last = Outcome("init")

(***************************************************************************)
(* connect.  The coroutine touches no field of the client before           *)
(* create_datagram_endpoint has returned.  The await opens the endpoint    *)
(* and suspends the coroutine; self.transport is assigned when the event   *)
(* loop resumes it, and other tasks of the loop run in between.            *)
(***************************************************************************)
\* a connect that swallows the OSError of the failing call and carries on
ConnectResult_swallow(mc, platform, failAt) ==
    [ok |-> TRUE,
     fail |-> IF failAt = 0 THEN "none"
              ELSE IF mc /\ ~create_multicast_sock(platform, failAt).ok
              THEN "create_multicast_sock"
              ELSE "create_datagram_endpoint",
     sock |-> IF mc THEN "factory" ELSE "loop",
     factory_calls |-> IF mc THEN 1 ELSE 0, endpoint_opens |-> 1]

\* the calls connect makes and the call that raised, if one did
ConnectResult(mc, platform, failAt) ==
    IF mc
    THEN LET s == create_multicast_sock(platform, failAt)
         IN  IF ~s.ok
             THEN [ok |-> FALSE, fail |-> "create_multicast_sock",
                   sock |-> "none",
                   factory_calls |-> 1, endpoint_opens |-> 0]
             ELSE IF failAt # 0
             THEN [ok |-> FALSE, fail |-> "create_datagram_endpoint",
                   sock |-> "none",
                   factory_calls |-> 1, endpoint_opens |-> 1]
             ELSE [ok |-> TRUE, fail |-> "none", sock |-> "factory",
                   factory_calls |-> 1, endpoint_opens |-> 1]
    ELSE IF failAt # 0
         THEN [ok |-> FALSE, fail |-> "create_datagram_endpoint",
               sock |-> "none",
               factory_calls |-> 0, endpoint_opens |-> 1]
         ELSE [ok |-> TRUE, fail |-> "none", sock |-> "loop",
               factory_calls |-> 0, endpoint_opens |-> 1]

\* the results of connect over every platform and every failing call
ConnectResults(mc) ==
    {ConnectResult(mc, c[1], c[2]) :
        c \in {d \in Platforms \X (0..(Len(SockOps("darwin")) + 1)) :
                  d[2] \in FailPoints(mc, d[1])}}

\* connect up to its suspension: the socket calls, and
\* create_datagram_endpoint up to `await waiter`; a failing call raises here
connect(r) ==
    /\ ~hung
    /\ r.ok => Len(endpoints) < MaxEndpoints
    /\ r.ok => Created(endpoints, nextId) < MaxCreated
    /\ IF r.ok
       THEN /\ endpoints' = Append(endpoints,
                                 [open |-> TRUE, sock |-> r.sock,
                                  pending |-> TRUE, lost |-> FALSE])
            /\ last' = [Outcome("create_datagram_endpoint") EXCEPT
                            !.fail = r.fail,
                            !.factory_calls = r.factory_calls,
                            !.endpoint_opens = r.endpoint_opens]
       ELSE /\ UNCHANGED endpoints
            /\ last' = [Outcome("connect") EXCEPT
                            !.err = "SocketError",
                            !.fail = r.fail,
                            !.factory_calls = r.factory_calls,
                            !.endpoint_opens = r.endpoint_opens]
    /\ UNCHANGED <<local_addr, remote_addr, call, multicast, transport,
                   callbacks, nextId, released, hung>>

Connect == \E r \in ConnectResults(multicast) : connect(r)

\* the endpoints whose connect is suspended; the loop resumes them in order
Suspended == {e \in DOMAIN endpoints : endpoints[e].pending}

\* the resumed connect: (transport, _) = the awaited result;
\* self.transport = transport
connect_resume ==
    /\ ~hung
    /\ Suspended # {}
    /\ LET e == CHOOSE x \in Suspended : \A y \in Suspended : x <= y
       IN  /\ endpoints' = [endpoints EXCEPT ![e].pending = FALSE]
           /\ transport' = e
    /\ last' = Outcome("connect")
    /\ UNCHANGED <<local_addr, remote_addr, call, multicast, callbacks,
                   nextId, released, hung>>

(***************************************************************************)
(* stop: self.transport.close()                                            *)
(***************************************************************************)
\* close() leaves self.transport referring to the closed transport
StopTransport_reset(tr) == None

StopTransport(tr) == tr

stop ==
    /\ ~hung
    /\ IF transport = None
       THEN /\ last' = [Outcome("stop") EXCEPT !.err = "AttributeError"]
            /\ UNCHANGED <<endpoints, transport>>
       ELSE /\ endpoints' = [endpoints EXCEPT ![transport].open = FALSE]
            /\ transport' = StopTransport(transport)
            /\ last' = Outcome("stop")
    /\ UNCHANGED <<local_addr, remote_addr, call, multicast, callbacks, nextId, released, hung>>

(***************************************************************************)
(* UDPClientFactory: the attributes of the protocol object                 *)
(***************************************************************************)
\* the attributes UDPClientFactory.__init__ and connection_made assign
FactoryAttrs == {"own_ip", "multicast", "transport", "data_received_callback"}

\* hasattr(self, name) on the protocol object
hasattr(name) == name \in FactoryAttrs

(***************************************************************************)
(* send                                                                    *)
(***************************************************************************)
\* a send that always names the destination
SendtoArgs_always_addr(mc, knxipframe) ==
    [data |-> to_knx(knxipframe), addr |-> "remote_addr"]

\* the arguments of transport.sendto
SendtoArgs(mc, knxipframe) ==
    IF mc
    THEN [data |-> to_knx(knxipframe), addr |-> "remote_addr"]
    ELSE [data |-> to_knx(knxipframe), addr |-> "omitted"]

\* transport is None: XKNXException("Transport not connected")
SendRejected(tr) == tr = None

\* the outcome of send.  transport.sendto of an asyncio datagram transport:
\* a closed transport with a peer address drops the datagram; a closed
\* transport without one still uses its socket, which is None once the
\* loop has released it (AttributeError); an OSError of the socket is
\* passed to protocol.error_received and nothing is written
SendOutcome(knxipframe, written) ==
    LET out == [Outcome("send") EXCEPT !.frame = knxipframe.service_type_ident]
    IN  IF SendRejected(transport)
        THEN [out EXCEPT !.err = "TransportNotConnected"]
        ELSE IF ~endpoints[transport].open /\ endpoints[transport].sock = "loop"
        THEN out
        ELSE IF endpoints[transport].lost
        THEN [out EXCEPT !.err = "AttributeError"]
        ELSE IF written
        THEN [out EXCEPT !.wrote = <<SendtoArgs(multicast, knxipframe)>>]
        ELSE [out EXCEPT !.fail = "sendto", !.logged = hasattr("xknx")]

\* a send whose rejection also drops the registered callbacks
send_rejection_clears(knxipframe, written) ==
    /\ ~hung
    /\ last' = SendOutcome(knxipframe, written)
    /\ callbacks' = IF SendRejected(transport) THEN <<>> ELSE callbacks
    /\ UNCHANGED <<local_addr, remote_addr, call, multicast, transport,
                   endpoints, nextId, released, hung>>

send(knxipframe, written) ==
    /\ ~hung
    /\ last' = SendOutcome(knxipframe, written)
    /\ UNCHANGED <<local_addr, remote_addr, call, multicast, transport,
                   endpoints, callbacks, nextId, released, hung>>

Send == \E knxipframe \in Frames, written \in BOOLEAN : send(knxipframe, written)

(***************************************************************************)
(* register_callback / unregister_callback                                 *)
(***************************************************************************)
register_callback(callback, service_types) ==
    /\ ~hung
    /\ nextId <= MaxHandles
    /\ Created(endpoints, nextId) < MaxCreated
    /\ callbacks' = register(callbacks, nextId, callback, service_types)
    /\ nextId' = nextId + 1
    /\ last' = Outcome("register")
    /\ UNCHANGED <<local_addr, remote_addr, call, multicast, transport, endpoints, released, hung>>

Register == \E reg \in Registrations : register_callback(reg[1], reg[2])

\* an unregister that removes the oldest registration when callb is absent
unregister_callback_evicts(id) ==
    /\ ~hung
    /\ IF id \in Ids(callbacks)
       THEN /\ callbacks' = unregister(callbacks, id)
            /\ released' = released \cup {id}
       ELSE /\ callbacks' = IF callbacks = <<>> THEN callbacks
                                                ELSE RemoveAt(callbacks, 1)
            /\ UNCHANGED released
    /\ last' = [Outcome("unregister") EXCEPT !.handle = id]
    /\ UNCHANGED <<local_addr, remote_addr, call, multicast, transport, endpoints, nextId, hung>>

\* callb is a Callback object returned by an earlier register_callback;
\* list.remove raises ValueError when it is not in the list
unregister_callback(id) ==
    /\ ~hung
    /\ IF id \in Ids(callbacks)
       THEN /\ callbacks' = unregister(callbacks, id)
            /\ released' = released \cup {id}
            /\ last' = [Outcome("unregister") EXCEPT !.handle = id]
       ELSE /\ UNCHANGED <<callbacks, released>>
            /\ last' = [Outcome("unregister") EXCEPT !.err = "ValueError",
                                                     !.handle = id]
    /\ UNCHANGED <<local_addr, remote_addr, call, multicast, transport, endpoints, nextId, hung>>

Unregister == \E id \in 1..(nextId - 1) : unregister_callback(id)

(***************************************************************************)
(* UDPClientFactory.datagram_received on an open endpoint of this client   *)
(***************************************************************************)
\* the endpoints whose socket the loop reads: the transport is not closed
\* and the connect that opened it has been resumed (the loop resumes the
\* coroutine before it handles the first read event)
Delivering ==
    {e \in DOMAIN endpoints : endpoints[e].open /\ ~endpoints[e].pending}

\* the objects whose handler called unregister_callback during the pass
SelfReleased(cbs, invoked) ==
    {cbs[i].id : i \in {j \in DOMAIN cbs :
                            /\ cbs[j].callback = "h_unreg_self"
                            /\ \E k \in DOMAIN invoked : invoked[k] = cbs[j].id}}

datagram_received(raw) ==
    LET r == data_received_callback(callbacks, nextId, raw)
    IN  /\ ~hung
        /\ Delivering # {}
        /\ r.hung \/ r.nextId <= MaxHandles + MaxPassHandles + 1
        /\ IF r.hung
           THEN /\ hung' = TRUE
                /\ UNCHANGED <<callbacks, nextId, released>>
           ELSE /\ hung' = FALSE
                /\ callbacks' = r.callbacks
                /\ nextId' = r.nextId
                /\ released' = released \cup SelfReleased(callbacks, r.invoked)
        /\ last' = [Outcome("receive") EXCEPT
                        !.err = IF r.hung THEN "hung" ELSE r.exc,
                        !.raw = raw,
                        !.invoked = r.invoked,
                        !.unhandled = r.unhandled,
                        !.decoded = r.decoded]
        /\ UNCHANGED <<local_addr, remote_addr, call, multicast, transport, endpoints>>

Receive == \E raw \in RawInputs : datagram_received(raw)

(***************************************************************************)
(* UDPClientFactory.error_received on an open endpoint of this client      *)
(***************************************************************************)
\* if hasattr(self, "xknx"): logger.warning("Error received: %s", exc)
error_received ==
    /\ ~hung
    /\ Delivering # {}
    /\ last' = [Outcome("error_received") EXCEPT !.logged = hasattr("xknx")]
    /\ UNCHANGED <<local_addr, remote_addr, call, multicast, transport,
                   endpoints, callbacks, nextId, released, hung>>

(***************************************************************************)
(* UDPClientFactory.connection_lost: the loop turn after transport.close() *)
(***************************************************************************)
\* the closed transports whose socket the loop has not yet released
Closing == {e \in DOMAIN endpoints : ~endpoints[e].open /\ ~endpoints[e].lost}

\* close() passes exc = None:
\* if hasattr(self, "xknx") and exc is not None: logger.info(...)
connection_lost ==
    /\ ~hung
    /\ Closing # {}
    /\ LET e == CHOOSE x \in Closing : \A y \in Closing : x <= y
       IN  endpoints' = [endpoints EXCEPT ![e].lost = TRUE]
    /\ last' = [Outcome("connection_lost") EXCEPT
                    !.logged = hasattr("xknx") /\ FALSE]
    /\ UNCHANGED <<local_addr, remote_addr, call, multicast, transport,
                   callbacks, nextId, released, hung>>

(***************************************************************************)
(* getsockname / getremote: self.transport.get_extra_info(...)             *)
(***************************************************************************)
\* get_extra_info of an asyncio datagram transport: the socket name, and the
\* peer name of a socket connected to remote_addr (None for the socket of
\* create_multicast_sock, which is bound but not connected)
get_extra_info(endpoint, key) ==
    IF key = "sockname" THEN "sockname"
    ELSE IF endpoint.sock = "loop" THEN "peername"
    ELSE "None"

\* the outcome of self.transport.get_extra_info(key): an AttributeError
\* while self.transport is None
getinfo(op, key) ==
    IF transport = None
    THEN [Outcome(op) EXCEPT !.err = "AttributeError"]
    ELSE [Outcome(op) EXCEPT !.ret = get_extra_info(endpoints[transport], key)]

getsockname ==
    /\ ~hung
    /\ last' = getinfo("getsockname", "sockname")
    /\ UNCHANGED <<local_addr, remote_addr, call, multicast, transport,
                   endpoints, callbacks, nextId, released, hung>>

getremote ==
    /\ ~hung
    /\ last' = getinfo("getremote", "peername")
    /\ UNCHANGED <<local_addr, remote_addr, call, multicast, transport,
                   endpoints, callbacks, nextId, released, hung>>

Next ==
    \/ Connect
    \/ connect_resume
    \/ connection_lost
    \/ stop
    \/ Send
    \/ Register
    \/ Unregister
    \/ Receive
    \/ error_received
    \/ getsockname
    \/ getremote

Spec == Init /\ [][Next]_vars

(***************************************************************************)
(* The constructor on its own: UDPClient(xknx, local_addr, remote_addr,    *)
(* multicast) over values of every shape.                                  *)
(***************************************************************************)
ElementTypes == {"str", "int"}

\* tuples and lists of up to three elements, a string, None
AddrValues ==
    {Value(t, items) :
        t \in {"tuple", "list"},
        items \in {<<>>} \cup UNION {[1..n -> ElementTypes] : n \in 1..3}}
    \cup {Value("str", <<>>), Unset}

\* the exception __init__ raises
InitError(la, ra) ==
    IF ~IsTuple(la) THEN "TypeError"
    ELSE IF ~IsTuple(ra) THEN "TypeError"
    ELSE "none"

CtorInit ==
    /\ call \in {[fn |-> "UDPClient", local_addr |-> la, remote_addr |-> ra,
                   multicast |-> mc, done |-> FALSE] :
                      la \in AddrValues, ra \in AddrValues, mc \in BOOLEAN}
    /\ local_addr = Unset
    /\ remote_addr = Unset
    /\ multicast = FALSE
    /\ transport = None
    /\ endpoints = <<>>
    /\ callbacks = <<>>
    /\ nextId = 1
    /\ released = {}
    /\ hung = FALSE
    /\ last = Outcome("none")

\* UDPClient.__init__
construct ==
    /\ call.fn = "UDPClient"
    /\ ~call.done
    /\ call' = [call EXCEPT !.done = TRUE]
    /\ last' = [Outcome("init") EXCEPT
                    !.err = InitError(call.local_addr, call.remote_addr)]
    /\ IF InitError(call.local_addr, call.remote_addr) = "none"
       THEN /\ local_addr' = call.local_addr
            /\ remote_addr' = call.remote_addr
            /\ multicast' = call.multicast
       ELSE UNCHANGED <<local_addr, remote_addr, multicast>>
    /\ UNCHANGED <<transport, endpoints, callbacks, nextId, released, hung>>

CtorNext == construct

CtorSpec == CtorInit /\ [][CtorNext]_vars

(***************************************************************************)
(* create_multicast_sock on its own: the calls with their arguments and    *)
(* the socket they leave behind.                                           *)
(***************************************************************************)
\* the arguments of the socket call named op; remote is remote_addr
SockCall(op, own_ip, remote) ==
    CASE op = "socket" ->
            [op |-> op, num |-> 0, addrs |-> <<>>, port |-> 0]
      [] op = "SO_REUSEADDR" ->
            [op |-> op, num |-> 1, addrs |-> <<>>, port |-> 0]
      [] op = "setblocking" ->
            [op |-> op, num |-> 0, addrs |-> <<>>, port |-> 0]
      [] op = "IP_MULTICAST_IF" ->
            [op |-> op, num |-> 0, addrs |-> <<own_ip>>, port |-> 0]
      [] op = "IP_ADD_MEMBERSHIP" ->
            [op |-> op, num |-> 0, addrs |-> <<remote.host, own_ip>>,
             port |-> 0]
      [] op = "IP_MULTICAST_TTL" ->
            [op |-> op, num |-> 2, addrs |-> <<>>, port |-> 0]
      [] op = "SO_REUSEPORT" ->
            [op |-> op, num |-> 1, addrs |-> <<>>, port |-> 0]
      [] op = "bind_any" ->
            [op |-> "bind", num |-> 0, addrs |-> <<"">>, port |-> remote.port]
      [] op = "bind_group" ->
            [op |-> "bind", num |-> 0, addrs |-> <<remote.host>>,
             port |-> remote.port]
      [] op = "IP_MULTICAST_LOOP" ->
            [op |-> op, num |-> 0, addrs |-> <<>>, port |-> 0]

\* a new AF_INET / SOCK_DGRAM socket: blocking, TTL 1, loopback enabled
NewSocket ==
    [reuseaddr |-> 0, reuseport |-> 0, blocking |-> 1, multicast_if |-> "",
     memberships |-> {}, ttl |-> 1, loop |-> 1, bound |-> <<>>]

\* the socket after one call
ApplyCall(sock, c) ==
    CASE c.op = "SO_REUSEADDR" -> [sock EXCEPT !.reuseaddr = c.num]
      [] c.op = "SO_REUSEPORT" -> [sock EXCEPT !.reuseport = c.num]
      [] c.op = "setblocking" -> [sock EXCEPT !.blocking = c.num]
      [] c.op = "IP_MULTICAST_IF" -> [sock EXCEPT !.multicast_if = c.addrs[1]]
      [] c.op = "IP_ADD_MEMBERSHIP" ->
            [sock EXCEPT !.memberships = @ \cup {c.addrs}]
      [] c.op = "IP_MULTICAST_TTL" -> [sock EXCEPT !.ttl = c.num]
      [] c.op = "IP_MULTICAST_LOOP" -> [sock EXCEPT !.loop = c.num]
      [] c.op = "bind" ->
            [sock EXCEPT !.bound = <<[host |-> c.addrs[1], port |-> c.port]>>]
      [] OTHER -> sock

RECURSIVE ApplyCalls(_, _)
ApplyCalls(sock, calls) ==
    IF calls = <<>> THEN sock
    ELSE ApplyCalls(ApplyCall(sock, Head(calls)), Tail(calls))

\* the calls create_multicast_sock made before it returned or raised
SockCallsMade(platform, own_ip, remote, failAt) ==
    LET done == create_multicast_sock(platform, failAt).done
    IN  [i \in DOMAIN done |-> SockCall(done[i], own_ip, remote)]

SockPlatforms == Platforms \cup {"freebsd"}

OwnIps == {"192.168.1.10", "10.0.0.5"}

Groups == {[host |-> h, port |-> p] :
              h \in {"224.0.23.12", "239.0.0.1"}, p \in {3671, 3672}}

SockInit ==
    /\ call \in {[fn |-> "create_multicast_sock", platform |-> pf,
                   own_ip |-> ip, remote_addr |-> g, failAt |-> k,
                   done |-> FALSE, raised |-> FALSE, calls |-> <<>>,
                   sock |-> NewSocket] :
                      pf \in SockPlatforms, ip \in OwnIps, g \in Groups,
                      k \in 0..Len(SockOps("darwin"))}
    /\ local_addr = HostPort
    /\ remote_addr = HostPort
    /\ multicast = TRUE
    /\ transport = None
    /\ endpoints = <<>>
    /\ callbacks = <<>>
    /\ nextId = 1
    /\ released = {}
    /\ hung = FALSE
    /\ last = Outcome("init")

\* UDPClient.create_multicast_sock(own_ip, remote_addr)
run_create_multicast_sock ==
    /\ call.fn = "create_multicast_sock"
    /\ ~call.done
    /\ LET made == SockCallsMade(call.platform, call.own_ip,
                                 call.remote_addr, call.failAt)
       IN  call' = [call EXCEPT
                        !.done = TRUE,
                        !.raised = ~create_multicast_sock(call.platform,
                                                          call.failAt).ok,
                        !.calls = made,
                        !.sock = ApplyCalls(NewSocket, made)]
    /\ UNCHANGED <<local_addr, remote_addr, multicast, transport, endpoints,
                   callbacks, nextId, released, hung, last>>

SockNext == run_create_multicast_sock

SockSpec == SockInit /\ [][SockNext]_vars

(***************************************************************************)
(* Properties.                                                             *)
(***************************************************************************)
Range(seq) == {seq[i] : i \in DOMAIN seq}

\* C1: a send made while the client is not Connected (never connected, or
\* stopped) fails with "Transport not connected" and writes nothing.
C1_GuardedSend ==
    (last.op = "send" /\ TransportState # "Connected")
        => (last.err = "TransportNotConnected" /\ last.wrote = <<>>)

\* C2 (as claimed): the transport state changes only Unconnected -> Connected
\* and Connected -> Closed; a Closed client never becomes Connected again.
C2_OnlyForwardTransitions ==
    [][TransportState' # TransportState =>
          \/ (TransportState = "Unconnected" /\ TransportState' = "Connected")
          \/ (TransportState = "Connected" /\ TransportState' = "Closed")]_vars

\* C2 (amended): the transport state changes only to Connected, by a
\* successful connect (from Unconnected, Closed or Connected), and from
\* Connected to Closed, by stop; it never returns to Unconnected, and a
\* successful connect on a Closed client makes it Connected again.
C2_TransitionsOfTheCode ==
    [][/\ TransportState' # TransportState =>
            \/ /\ TransportState' = "Connected"
               /\ last'.op = "connect" /\ last'.err = "none"
            \/ /\ TransportState = "Connected" /\ TransportState' = "Closed"
               /\ last'.op = "stop" /\ last'.err = "none"
       /\ TransportState # "Unconnected" => TransportState' # "Unconnected"
       /\ (TransportState = "Closed" /\ last'.op = "connect"
                                     /\ last'.err = "none")
            => TransportState' = "Connected"]_vars

\* a stopped client that was connected again
C2_Witness ==
    /\ Len(endpoints) = 2
    /\ ~endpoints[1].open
    /\ transport = 2
    /\ TransportState = "Connected"
    /\ last.op = "connect"

\* C3: a connect that fails at any underlying call raises the error to its
\* caller, leaves the transport of the client as it was (an Unconnected
\* client stays Unconnected and rejects a send) and makes each call at most
\* once; a connect in which nothing fails leaves the client Connected when
\* it returns, and only such a connect is suspended in its await.
C3_ConnectFailure ==
    [][/\ last'.op = "connect" =>
          /\ last'.fail # "none" =>
                /\ last'.err = "SocketError"
                /\ transport' = transport
                /\ endpoints' = endpoints
                /\ TransportState = "Unconnected" => SendRejected(transport')
          /\ last'.fail = "none" =>
                /\ last'.err = "none"
                /\ TransportState' = "Connected"
          /\ last'.factory_calls <= 1
          /\ last'.endpoint_opens <= 1
       /\ last'.op = "create_datagram_endpoint" =>
          /\ last'.fail = "none"
          /\ last'.err = "none"
          /\ transport' = transport
          /\ last'.factory_calls <= 1
          /\ last'.endpoint_opens = 1]_vars

\* a socket call of create_multicast_sock failed on a client that was never
\* connected
C3_Witness ==
    /\ last.op = "connect"
    /\ last.fail = "create_multicast_sock"
    /\ last.err = "SocketError"
    /\ TransportState = "Unconnected"


(***************************************************************************)
(* Dispatch properties.                                                    *)
(***************************************************************************)
\* the frame of a receive step that decoded its datagram
ReceivedType(outcome) == from_knx(outcome.raw).service_type_ident

\* ids of the registrations of cbs that match the service type, in list order
MatchingIds(cbs, service_type) ==
    LET sel == SelectSeq(cbs, LAMBDA c : has_service(c, service_type))
    IN  [i \in DOMAIN sel |-> sel[i].id]

\* number of invocations of the registration id in a pass
Invocations(invoked, id) ==
    Cardinality({k \in DOMAIN invoked : invoked[k] = id})

\* ids are handed out in registration order
InRegistrationOrder(cbs) ==
    \A i, j \in DOMAIN cbs : i < j => cbs[i].id < cbs[j].id

\* a receive step in which a frame was decoded and the dispatch loop ended
DispatchedStep == last'.op = "receive" /\ last'.decoded /\ ~hung'

\* C4: the registry holds the registrations registered and not yet
\* unregistered, in registration order, and a dispatch invokes every matching
\* registration, in that order.
C4_RegistrationOrderIsDispatchOrder ==
    [][/\ InRegistrationOrder(callbacks')
       /\ (last'.op = "register") =>
              /\ Len(callbacks') = Len(callbacks) + 1
              /\ SubSeq(callbacks', 1, Len(callbacks)) = callbacks
       /\ (last'.op = "unregister" /\ last'.err = "none") =>
              /\ Ids(callbacks') \subseteq Ids(callbacks)
              /\ Cardinality(Ids(callbacks')) = Cardinality(Ids(callbacks)) - 1
       /\ DispatchedStep =>
              last'.invoked = MatchingIds(callbacks, ReceivedType(last'))]_vars

\* C5: in a pass that does not change the registry, every registration is
\* invoked exactly once if its filter is empty or contains the service type
\* of the frame, and not at all otherwise.
C5_DispatchCompleteAndSelective ==
    [][(DispatchedStep /\ callbacks' = callbacks) =>
          \A i \in DOMAIN callbacks :
              Invocations(last'.invoked, callbacks[i].id) =
                  IF has_service(callbacks[i], ReceivedType(last'))
                  THEN 1 ELSE 0]_vars

\* C6: a Callback object for which unregister_callback has returned is
\* invoked by no later dispatch.
C6_UnregisteredNeverInvoked ==
    [][last'.op = "receive" =>
          \A k \in DOMAIN last'.invoked : last'.invoked[k] \notin released]_vars

\* two registrations of handlers; one was unregistered, and a frame was then
\* dispatched to the other
C6_Witness ==
    /\ last.op = "receive"
    /\ released # {}
    /\ last.invoked # <<>>
    /\ \A k \in DOMAIN last.invoked : last.invoked[k] \notin released

\* C7: malformed bytes raise nothing out of the receive path, invoke no
\* handler, leave transport and registry as they were, and the endpoint
\* keeps delivering datagrams to the client.
C7_MalformedBytesDropped ==
    [][(last'.op = "receive" /\ Len(last'.raw) > 0 /\ CouldNotParse(last'.raw)) =>
          /\ last'.err = "none"
          /\ last'.invoked = <<>>
          /\ ~last'.decoded
          /\ ~last'.unhandled
          /\ UNCHANGED <<transport, endpoints, callbacks, nextId, released>>
          /\ ~hung'
          /\ \E e \in DOMAIN endpoints' : endpoints'[e].open]_vars

\* malformed bytes were received by a client with a match-all registration
C7_Witness ==
    /\ last.op = "receive"
    /\ Len(last.raw) > 0
    /\ CouldNotParse(last.raw)
    /\ \E i \in DOMAIN callbacks : callbacks[i].service_types = {}

\* C8: when an invoked handler raises, nothing is raised out of the receive
\* path and every registration matching the frame is still invoked.
C8_HandlerFailureContained ==
    [][(/\ DispatchedStep
        /\ \E i \in DOMAIN callbacks :
              /\ callbacks[i].callback = "h_raise"
              /\ callbacks[i].id \in Range(last'.invoked)) =>
          /\ last'.err = "none"
          /\ \A j \in DOMAIN callbacks :
                has_service(callbacks[j], ReceivedType(last'))
                    => callbacks[j].id \in Range(last'.invoked)]_vars

\* C9: the unhandled observation is recorded exactly for a decoded frame
\* that no registration matched (no handler invoked); recording it raises
\* nothing and changes nothing.
C9_UnhandledIffNoMatch ==
    [][(last'.op = "receive" /\ ~hung') =>
          /\ last'.unhandled <=>
                (last'.decoded /\
                 MatchingIds(callbacks, ReceivedType(last')) = <<>>)
          /\ last'.unhandled <=> (last'.decoded /\ last'.invoked = <<>>)
          /\ last'.unhandled =>
                /\ last'.err = "none"
                /\ UNCHANGED <<transport, endpoints, callbacks, nextId,
                               released>>]_vars

\* a frame of type 0x0203 met only a registration for 0x0201
C9_Witness ==
    /\ last.op = "receive"
    /\ last.unhandled
    /\ callbacks # <<>>

\* C10 (as claimed): a send of a Connected client writes one datagram, the
\* encoding of the frame: with multicast to remote_addr on a socket made by
\* create_multicast_sock, without multicast to no named destination, and
\* then create_multicast_sock is never called.
C10_SendAddressing ==
    /\ (last.op = "send" /\ TransportState = "Connected") =>
          /\ last.err = "none"
          /\ Len(last.wrote) = 1
          /\ last.wrote[1].data = to_knx(Frame(last.frame))
          /\ last.wrote[1].addr = IF multicast THEN "remote_addr" ELSE "omitted"
          /\ endpoints[transport].sock = IF multicast THEN "factory" ELSE "loop"
    /\ ~multicast => last.factory_calls = 0

\* C10 (amended): a send of a Connected client raises nothing and writes at
\* most one datagram: the encoding of the frame, addressed as claimed, when
\* the socket takes it, and none when the socket reports an error, which
\* goes to error_received of the endpoint.
C10_SendWritesAtMostOne ==
    /\ (last.op = "send" /\ TransportState = "Connected") =>
          /\ last.err = "none"
          /\ last.fail \in {"none", "sendto"}
          /\ last.fail = "none" =>
                /\ Len(last.wrote) = 1
                /\ last.wrote[1].data = to_knx(Frame(last.frame))
                /\ last.wrote[1].addr =
                        IF multicast THEN "remote_addr" ELSE "omitted"
          /\ last.fail = "sendto" => last.wrote = <<>>
          /\ endpoints[transport].sock = IF multicast THEN "factory" ELSE "loop"
    /\ ~multicast => last.factory_calls = 0

\* the socket of a Connected unicast client refused a datagram
C10_Witness ==
    /\ last.op = "send"
    /\ TransportState = "Connected"
    /\ ~multicast
    /\ last.fail = "sendto"
    /\ last.wrote = <<>>

(***************************************************************************)
(* Construction.                                                           *)
(***************************************************************************)
\* C11: construction succeeds when local_addr and remote_addr are both
\* 2-tuples of (string, integer) and fails with an error whenever one of
\* them is not.
C11_ConstructorValidation ==
    (call.fn = "UDPClient" /\ call.done) =>
        (last.err = "none"
            <=> (call.local_addr = HostPort /\ call.remote_addr = HostPort))

(***************************************************************************)
(* The multicast socket.                                                   *)
(***************************************************************************)
IsPrefix(a, b) == Len(a) <= Len(b) /\ a = SubSeq(b, 1, Len(a))

\* the order of section 4.1, written as <<operation, number, addresses, port>>
ClaimedBind(platform, remote) ==
    IF platform = "win32" THEN <<<<"bind", 0, <<"">>, remote.port>>>>
    ELSE IF platform = "darwin"
    THEN <<<<"SO_REUSEPORT", 1, <<>>, 0>>, <<"bind", 0, <<"">>, remote.port>>>>
    ELSE <<<<"bind", 0, <<remote.host>>, remote.port>>>>

ClaimedOrder(platform, own_ip, remote) ==
    <<<<"socket", 0, <<>>, 0>>,
      <<"SO_REUSEADDR", 1, <<>>, 0>>,
      <<"setblocking", 0, <<>>, 0>>,
      <<"IP_MULTICAST_IF", 0, <<own_ip>>, 0>>,
      <<"IP_ADD_MEMBERSHIP", 0, <<remote.host, own_ip>>, 0>>,
      <<"IP_MULTICAST_TTL", 2, <<>>, 0>>>>
        \o ClaimedBind(platform, remote)
        \o <<<<"IP_MULTICAST_LOOP", 0, <<>>, 0>>>>

CallsAsTuples(calls) ==
    [i \in DOMAIN calls |->
        <<calls[i].op, calls[i].num, calls[i].addrs, calls[i].port>>]

\* C12: create_multicast_sock makes its socket calls in the order SO_REUSEADDR,
\* non-blocking, IP_MULTICAST_IF, IP_ADD_MEMBERSHIP, IP_MULTICAST_TTL = 2, the
\* bind of the platform (SO_REUSEPORT only on darwin), IP_MULTICAST_LOOP = 0;
\* the socket it returns has TTL 2, loopback disabled and the group joined.
C12_MulticastSocketOrder ==
    (call.fn = "create_multicast_sock" /\ call.done) =>
        LET claimed == ClaimedOrder(call.platform, call.own_ip, call.remote_addr)
        IN  /\ IsPrefix(CallsAsTuples(call.calls), claimed)
            /\ ~call.raised =>
                  /\ CallsAsTuples(call.calls) = claimed
                  /\ call.sock.ttl = 2
                  /\ call.sock.loop = 0
                  /\ call.sock.memberships =
                        {<<call.remote_addr.host, call.own_ip>>}
                  /\ call.sock.reuseaddr = 1
                  /\ call.sock.blocking = 0
                  /\ call.sock.multicast_if = call.own_ip
                  /\ call.sock.reuseport = IF call.platform = "darwin"
                                           THEN 1 ELSE 0
            /\ call.raised => Len(call.calls) = call.failAt - 1

\* a socket made on a platform that is neither win32 nor darwin
C12_Witness ==
    /\ call.fn = "create_multicast_sock"
    /\ call.done
    /\ ~call.raised
    /\ call.platform = "freebsd"
    /\ call.sock.bound = <<[host |-> call.remote_addr.host,
                            port |-> call.remote_addr.port]>>

(***************************************************************************)
(* Endpoint events and introspection.                                      *)
(***************************************************************************)
\* C13: an error event of the endpoint is logged, raises nothing, leaves the
\* endpoint open and the transport state and registry unchanged, so that
\* datagrams are still received after it.
C13_ErrorEventLoggedAndHarmless ==
    [][last'.op = "error_received" =>
          /\ last'.logged
          /\ last'.err = "none"
          /\ UNCHANGED <<transport, endpoints, callbacks, nextId, released>>
          /\ ~hung'
          /\ \E e \in DOMAIN endpoints' : endpoints'[e].open]_vars

\* C14: data is processed only while the client is Connected: in no other
\* state is a received frame decoded or a registered handler invoked.
C14_ReceiveOnlyWhileConnected ==
    [][(last'.op = "receive" /\ (last'.decoded \/ last'.invoked # <<>>))
          => TransportState = "Connected"]_vars

\* C15: before the client is Connected getsockname and getremote return an
\* absent result instead of failing; once Connected they return the socket
\* name and the peer name of the live endpoint.
C15_IntrospectionBeforeConnected ==
    [][last'.op \in {"getsockname", "getremote"} =>
          /\ last'.err = "none"
          /\ TransportState = "Unconnected" => last'.ret = "None"
          /\ (TransportState = "Connected" /\ last'.op = "getsockname")
                => last'.ret = "sockname"
          /\ (TransportState = "Connected" /\ last'.op = "getremote")
                => last'.ret = "peername"]_vars

(***************************************************************************)
(* Failed calls leave the client as it was.                                *)
(***************************************************************************)
\* C16: a send rejected because the client is not connected changes nothing
\* of the client: transport state, local_addr, remote_addr, the multicast
\* flag and the registry are as before the call, so every later operation
\* behaves as if the rejected send had not been made.
C16_RejectedSendChangesNothing ==
    [][(last'.op = "send" /\ last'.err = "TransportNotConnected") =>
          /\ UNCHANGED <<local_addr, remote_addr, multicast, transport,
                         endpoints, callbacks, nextId, released, hung>>
          /\ TransportState' = TransportState]_vars

\* a send was rejected on a client that holds registrations
C16_Witness ==
    /\ last.op = "send"
    /\ last.err = "TransportNotConnected"
    /\ callbacks # <<>>

\* C17: unregister_callback with a handle that is not, or no longer, in the
\* registry leaves the registry as it was, registrations and order; it does
\* nothing or reports an error, and removes no other registration.
C17_UnregisterAbsentHandle ==
    [][(last'.op = "unregister" /\ last'.handle \notin Ids(callbacks)) =>
          /\ callbacks' = callbacks
          /\ last'.err \in {"none", "ValueError"}]_vars

\* a handle was unregistered a second time while the registry holds others
C17_Witness ==
    /\ last.op = "unregister"
    /\ last.handle \in released
    /\ last.handle \notin Ids(callbacks)
    /\ last.err = "ValueError"
    /\ callbacks # <<>>

(***************************************************************************)
(* Handlers that change the registry during a pass.                        *)
(***************************************************************************)
\* C18: the dispatch of one frame ends after a bounded number of handler
\* invocations, whatever the handlers register or unregister during the pass.
C18_DispatchTerminates ==
    /\ ~hung
    /\ last.op = "receive" =>
          /\ last.err # "hung"
          /\ Len(last.invoked) <= MaxHandles + MaxPassHandles

\* C19: in a pass whose handlers unregister registrations, every registration
\* that was registered when the pass began, matches the frame and is still
\* registered after the pass is invoked exactly once, and the unhandled
\* observation is recorded only when no handler ran.
C19_UnregisterInPassSkipsNothing ==
    [][(/\ DispatchedStep
        /\ last'.err = "none"
        /\ Ids(callbacks) \ Ids(callbacks') # {}) =>
          /\ \A i \in DOMAIN callbacks :
                (/\ has_service(callbacks[i], ReceivedType(last'))
                 /\ callbacks[i].id \in Ids(callbacks'))
                    => Invocations(last'.invoked, callbacks[i].id) = 1
          /\ last'.unhandled <=> last'.invoked = <<>>]_vars

(***************************************************************************)
(* Endpoints of one client.                                                *)
(***************************************************************************)
\* the endpoints opened by connect that are not closed
OpenEndpoints == {e \in DOMAIN endpoints : endpoints[e].open}

\* C20: the client holds at most one open endpoint, and after stop no
\* endpoint opened by an earlier connect is open or delivers data to the
\* client, also when connect is called on a connected client.
C20_AtMostOneOpenEndpoint ==
    /\ Cardinality(OpenEndpoints) <= 1
    /\ TransportState = "Closed" => OpenEndpoints = {}
    /\ (last.op = "stop" /\ last.err = "none") => OpenEndpoints = {}

====
